---- MODULE Spec2Model ----
(***************************************************************************)
(* A model of twitter.thermos.runner.helper: TaskRunnerHelper.kill and the *)
(* helpers it is built on (open_checkpoint, kill_runner, scan_process,     *)
(* kill_process, initialize_task, finalize_task), run by several           *)
(* supervisor processes against one task: one checkpoint log, one          *)
(* advisory lock on it, one OS process table and one task directory.       *)
(***************************************************************************)
EXTENDS Integers, Sequences, FiniteSets, TLC

\* ------------------------------------------------------------------ bounds
\* supervisor processes
NumSupervisors == 2
\* kill calls issued in all
MaxKills == 2
\* initialize_task and finalize_task calls one supervisor issues directly
MaxLifecycleCalls == 2

\* times (start time, clock, wall time) given to this_is_really_our_pid
MaxTime == 12

\* ------------------------------------------------------- program constants
MAX_START_TIME_DRIFT == 10
SIGKILL_RETURN_CODE == 0 - 9

\* ------------------------------------------------------------ environment
Supervisors == 1..NumSupervisors
\* pid of the runner that wrote the checkpoint before any kill was issued
RunnerPid == 90
\* pids recorded in the checkpoint for the task's processes
CoordPid == 11
MainPid == 12
ChildPid == 13
GrandChildPid == 14
OSPids == {CoordPid, MainPid, ChildPid, GrandChildPid}
ProcessNames == {"a", "b"}
TaskUser == "task"
\* clock.time() during the kill, and the fork/start time the checkpoint holds
Now == 30
RecordedStart == 20

TERMINAL_PROCESS_STATES == {"SUCCESS", "KILLED", "FAILED", "LOST"}
TERMINAL_TASK_STATES == {"SUCCESS", "FAILED", "KILLED", "LOST"}

is_process_terminal(process_status) == process_status \in TERMINAL_PROCESS_STATES
is_task_terminal(task_status) == task_status \in TERMINAL_TASK_STATES

VARIABLES
  log,            \* the checkpoint log: the records appended so far
  corrupt,        \* what replay cannot read: "none", "state", "header", "statuses"
  holders,        \* pids holding the advisory lock on the checkpoint log
  alive,          \* runner and supervisor pids that are running
  runner_eperm,   \* signalling RunnerPid fails with EPERM
  ps,             \* the OS process table: pid -> handle
  active_task,    \* the active task file exists
  finished_task,  \* the finished task file exists
  pc,             \* per supervisor: position in the current call
  op,             \* per supervisor: the call in progress
  force,          \* per supervisor: kill's force argument
  terminal_status,\* per supervisor: kill's terminal_status argument
  seen,           \* per supervisor: length of the log when it was replayed
  todo,           \* per supervisor: processes the kill loop has not reached
  ckpt,           \* per supervisor: its checkpoint writer
  is_paths,       \* per supervisor: <<is_active, is_finished>> read by os.path.exists
  calls,          \* per supervisor: calls started
  wrote,          \* per supervisor: records appended by the current call
  finalized,      \* per supervisor: the current call renamed active to finished
  result,         \* per supervisor: outcomes of its completed calls
  scanned,        \* per supervisor: result of its latest scan_process
  signals,        \* per supervisor: signals of its latest kill_process, in order
  probe,          \* arguments of a direct call of this_is_really_our_pid
  verdict         \* what that call returned: <<>> before it returns

vars == <<log, corrupt, holders, alive, runner_eperm, ps, active_task,
          finished_task, pc, op, force, terminal_status, seen, todo, ckpt,
          is_paths, calls, wrote, finalized, result, scanned, signals, probe,
          verdict>>

\* ---------------------------------------------------------------- records
TaskStatus(state, runner_pid) ==
  [kind |-> "task", state |-> state, runner_pid |-> runner_pid, process |-> "",
   seq |-> 0, coordinator_pid |-> 0, pid |-> 0, fork_time |-> 0,
   start_time |-> 0, return_code |-> 0, stop_time |-> 0]

ProcessStatus(process, state, seq, coordinator_pid, pid, return_code, stop_time) ==
  [kind |-> "process", state |-> state, runner_pid |-> 0, process |-> process,
   seq |-> seq, coordinator_pid |-> coordinator_pid, pid |-> pid,
   fork_time |-> IF coordinator_pid # 0 THEN RecordedStart ELSE 0,
   start_time |-> IF pid # 0 THEN RecordedStart ELSE 0,
   return_code |-> return_code, stop_time |-> stop_time]

NoHandle == [user |-> "none", wall_time |-> 0, ppid |-> 0, pgid |-> 0]
Handle(user, wall_time, ppid, pgid) ==
  [user |-> user, wall_time |-> wall_time, ppid |-> ppid, pgid |-> pgid]

\* ----------------------------------------------------- checkpoint replay
RECURSIVE Filter(_, _, _)
Filter(l, kind, process) ==
  IF l = <<>> THEN <<>>
  ELSE LET rest == Filter(Tail(l), kind, process)
       IN IF Head(l).kind = kind /\ Head(l).process = process
          THEN <<Head(l)>> \o rest ELSE rest

\* CheckpointDispatcher.from_file: the in-memory state of a log
from_file(l, c) ==
  [none |-> c = "state",
   header_none |-> c \in {"state", "header"},
   statuses_none |-> c \in {"state", "statuses"},
   user |-> TaskUser,
   statuses |-> Filter(l, "task", ""),
   processes |-> [n \in {r.process : r \in {l[i] : i \in DOMAIN l}} \ {""}
                    |-> Filter(l, "process", n)]]

Last(s) == s[Len(s)]

\* the state a supervisor replayed at the start of its call
State(s) == from_file(SubSeq(log, 1, seen[s]), corrupt)

\* ------------------------------------------------------ PID verification
Abs(x) == IF x < 0 THEN 0 - x ELSE x

\* this_is_really_our_pid with `>` for the `>=` of line 92
our_pid_accepting_the_boundary(process_handle, current_user, start_time, now) ==
  IF process_handle.user # current_user THEN FALSE
  ELSE LET estimated_start_time == now - process_handle.wall_time
       IN IF Abs(start_time - estimated_start_time) > MAX_START_TIME_DRIFT
          THEN FALSE ELSE TRUE

this_is_really_our_pid(process_handle, current_user, start_time, now) ==
  IF process_handle.user # current_user THEN FALSE
  ELSE LET estimated_start_time == now - process_handle.wall_time
       IN IF Abs(start_time - estimated_start_time) >= MAX_START_TIME_DRIFT
          THEN FALSE ELSE TRUE

\* ps.pids()
pids(table) == {p \in DOMAIN table : table[p] # NoHandle}

\* ps.children_of(pid, all=True): the recursive descendants of pid
RECURSIVE Descendants(_, _, _)
Descendants(table, frontier, found) ==
  LET next == {p \in pids(table) : table[p].ppid \in frontier} \ found
  IN IF next = {} THEN found ELSE Descendants(table, next, found \cup next)

children_of(table, pid) == Descendants(table, {pid}, {})

\* scan_process with the subtree collected whenever a pid is recorded
\* (lines 127-129 moved out of the test of line 124)
scan_process_keeping_the_tree(state, process_name, table) ==
  LET process_run == Last(state.processes[process_name])
      process_owner == state.user
      coordinator_pid ==
        IF process_run.coordinator_pid # 0
           /\ process_run.coordinator_pid \in pids(table)
           /\ this_is_really_our_pid(table[process_run.coordinator_pid],
                                     process_owner, process_run.fork_time, Now)
        THEN process_run.coordinator_pid ELSE 0
      pid ==
        IF process_run.pid # 0
           /\ process_run.pid \in pids(table)
           /\ this_is_really_our_pid(table[process_run.pid],
                                     process_owner, process_run.start_time, Now)
        THEN process_run.pid ELSE 0
  IN [coordinator_pid |-> coordinator_pid,
      pid |-> pid,
      tree |-> IF process_run.pid # 0 THEN children_of(table, process_run.pid) ELSE {}]

scan_process(state, process_name, table) ==
  LET process_run == Last(state.processes[process_name])
      process_owner == state.user
      coordinator_pid ==
        IF process_run.coordinator_pid # 0
           /\ process_run.coordinator_pid \in pids(table)
           /\ this_is_really_our_pid(table[process_run.coordinator_pid],
                                     process_owner, process_run.fork_time, Now)
        THEN process_run.coordinator_pid ELSE 0
      pid ==
        IF process_run.pid # 0
           /\ process_run.pid \in pids(table)
           /\ this_is_really_our_pid(table[process_run.pid],
                                     process_owner, process_run.start_time, Now)
        THEN process_run.pid ELSE 0
  IN [coordinator_pid |-> coordinator_pid,
      pid |-> pid,
      tree |-> IF pid # 0 THEN children_of(table, process_run.pid) ELSE {}]

_get_coordinator_group(state, process_name) ==
  Last(state.processes[process_name]).coordinator_pid

\* ------------------------------------------------------------- signalling
\* the orders in which `for child in tree` can visit a set
Orders(S) == {o \in [1..Cardinality(S) -> S] : \A i, j \in DOMAIN o : i # j => o[i] # o[j]}

\* kill_process with the group signal sent last (lines 200-202 moved after
\* the loop of lines 209-211)
kill_process_group_last(coordinator_pgid, scan, order) ==
  (IF scan.coordinator_pid # 0 THEN <<scan.coordinator_pid>> ELSE <<>>)
  \o (IF scan.pid # 0 THEN <<scan.pid>> ELSE <<>>)
  \o order
  \o (IF coordinator_pgid # 0 THEN <<0 - coordinator_pgid>> ELSE <<>>)

\* kill_process: the signals it sends, in order; a group signal is the
\* negated group id, as kill_group passes it to os.kill
kill_process_signals(coordinator_pgid, scan, order) ==
  (IF coordinator_pgid # 0 THEN <<0 - coordinator_pgid>> ELSE <<>>)
  \o (IF scan.coordinator_pid # 0 THEN <<scan.coordinator_pid>> ELSE <<>>)
  \o (IF scan.pid # 0 THEN <<scan.pid>> ELSE <<>>)
  \o order

\* kill_process: its return value
kill_process_result(scan) ==
  scan.coordinator_pid # 0 \/ scan.pid # 0 \/ scan.tree # {}

\* safe_signal(.., SIGKILL) for each signal: a live target the caller may
\* signal dies; ESRCH and EPERM are swallowed
Deliver(table, sigs) ==
  LET targets == {sigs[i] : i \in DOMAIN sigs}
      hit(p) == p \in targets \/ (0 - table[p].pgid) \in targets
  IN [p \in DOMAIN table |->
        IF table[p] # NoHandle /\ table[p].user = TaskUser /\ hit(p)
        THEN NoHandle ELSE table[p]]

\* kill, lines 293-301 with the result of kill_process (line 294) ignored:
\* the else branch is always taken
records_ignoring_kill_process(process_status, killed) ==
  IF is_process_terminal(process_status.state) THEN <<>>
  ELSE IF process_status.state # "WAITING"
       THEN <<ProcessStatus(process_status.process, "LOST", process_status.seq + 1,
                            0, 0, 0, 0)>>
       ELSE <<>>

\* kill, lines 293-301: the records one loop iteration appends for a
\* process whose latest status is process_status
RecordsNoWaitingCheck(process_status, killed) ==
  IF is_process_terminal(process_status.state) THEN <<>>
  ELSE IF killed
       THEN <<ProcessStatus(process_status.process, "KILLED", process_status.seq + 1,
                            0, 0, SIGKILL_RETURN_CODE, Now)>>
       ELSE <<ProcessStatus(process_status.process, "LOST", process_status.seq + 1,
                            0, 0, 0, 0)>>

process_records(process_status, killed) ==
  IF is_process_terminal(process_status.state) THEN <<>>
  ELSE IF killed
       THEN <<ProcessStatus(process_status.process, "KILLED", process_status.seq + 1,
                            0, 0, SIGKILL_RETURN_CODE, Now)>>
       ELSE IF process_status.state # "WAITING"
            THEN <<ProcessStatus(process_status.process, "LOST", process_status.seq + 1,
                                 0, 0, 0, 0)>>
            ELSE <<>>

\* ------------------------------------------------------------------- Init
\* process tables the kill can meet: the coordinator and the main process
\* are each gone, live and ours, or a stranger that was given the same pid
DeadTable == [p \in OSPids |-> NoHandle]
OurCoordinator == Handle(TaskUser, Now - RecordedStart, 1, CoordPid)
StrangerCoordinator == Handle("other", Now - RecordedStart, 1, CoordPid)
OurMain == Handle(TaskUser, Now - RecordedStart, CoordPid, CoordPid)
StrangerMain == Handle(TaskUser, Now - RecordedStart - MAX_START_TIME_DRIFT, 1, MainPid)
WithChildren(table, pgid) ==
  [table EXCEPT ![ChildPid] = Handle(TaskUser, 5, MainPid, pgid),
                ![GrandChildPid] = Handle(TaskUser, 5, ChildPid, pgid)]

Forked == ProcessStatus("a", "FORKED", 1, CoordPid, 0, 0, 0)
Running == ProcessStatus("a", "RUNNING", 2, CoordPid, MainPid, 0, 0)
Succeeded == ProcessStatus("a", "SUCCESS", 2, CoordPid, MainPid, 0, Now)
Waiting == ProcessStatus("b", "WAITING", 0, 0, 0, 0, 0)

\* the latest ProcessStatus of process a, with a table that can go with it
ProcessA ==
  {<<Running, WithChildren([DeadTable EXCEPT ![CoordPid] = OurCoordinator,
                                             ![MainPid] = OurMain], CoordPid)>>,
   <<Running, WithChildren([DeadTable EXCEPT ![MainPid] = OurMain], CoordPid)>>,
   <<Running, WithChildren([DeadTable EXCEPT ![MainPid] = StrangerMain], MainPid)>>,
   <<Running, [DeadTable EXCEPT ![CoordPid] = StrangerCoordinator]>>,
   <<Running, DeadTable>>,
   <<Forked, [DeadTable EXCEPT ![CoordPid] = OurCoordinator]>>,
   <<Succeeded, DeadTable>>}

InitLocals ==
  /\ pc = [s \in Supervisors |-> "idle"]
  /\ op = [s \in Supervisors |-> "none"]
  /\ force = [s \in Supervisors |-> FALSE]
  /\ terminal_status = [s \in Supervisors |-> "KILLED"]
  /\ seen = [s \in Supervisors |-> 0]
  /\ todo = [s \in Supervisors |-> {}]
  /\ ckpt = [s \in Supervisors |-> "none"]
  /\ is_paths = [s \in Supervisors |-> <<FALSE, FALSE>>]
  /\ calls = [s \in Supervisors |-> 0]
  /\ wrote = [s \in Supervisors |-> 0]
  /\ finalized = [s \in Supervisors |-> FALSE]
  /\ result = [s \in Supervisors |-> <<>>]
  /\ scanned = [s \in Supervisors |-> [coordinator_pid |-> 0, pid |-> 0, tree |-> {}]]
  /\ signals = [s \in Supervisors |-> <<>>]

\* no direct call of this_is_really_our_pid
NotProbing ==
  /\ probe = [user |-> "none", current_user |-> "none", wall_time |-> 0,
              start_time |-> 0, now |-> 0]
  /\ verdict = <<>>

\* the runner that wrote the checkpoint is gone
RunnerGone ==
  /\ alive = Supervisors
  /\ holders = {}
  /\ runner_eperm = FALSE

\* the runner that wrote the checkpoint is alive and holds the lock
RunnerHolds ==
  /\ alive = Supervisors \cup {RunnerPid}
  /\ holders = {RunnerPid}
  /\ runner_eperm \in BOOLEAN

Init ==
  /\ InitLocals
  /\ NotProbing
  /\ \/ \* a task in progress
        /\ corrupt = "none"
        /\ \E a \in ProcessA :
             /\ log = <<TaskStatus("ACTIVE", RunnerPid), a[1], Waiting>>
             /\ ps = a[2]
             /\ RunnerGone \/ (a[1] = Forked /\ RunnerHolds)
        /\ active_task = TRUE
        /\ finished_task = FALSE
     \/ \* a task that already reached a terminal state
        /\ corrupt = "none"
        /\ log = <<TaskStatus("ACTIVE", RunnerPid), Succeeded, Waiting,
                   TaskStatus("SUCCESS", RunnerPid)>>
        /\ ps = DeadTable
        /\ RunnerGone
        /\ active_task \in BOOLEAN
        /\ finished_task = ~active_task
     \/ \* a checkpoint that replay cannot read, or reads without its header
        \* or without its statuses
        /\ corrupt \in {"state", "header", "statuses"}
        /\ log = IF corrupt = "header"
                 THEN <<TaskStatus("ACTIVE", RunnerPid), Succeeded, Waiting>>
                 ELSE <<>>
        /\ ps = DeadTable
        /\ RunnerGone \/ RunnerHolds
        /\ active_task = TRUE
        /\ finished_task = FALSE

\* ---------------------------------------------------------------- actions
\* a call ends: with outcome "ok" it returned, otherwise it raised
\* (the call's arguments and locals go out of scope)
Return(s, outcome, did_finalize) ==
  /\ pc' = [pc EXCEPT ![s] = "idle"]
  /\ force' = [force EXCEPT ![s] = FALSE]
  /\ terminal_status' = [terminal_status EXCEPT ![s] = "KILLED"]
  /\ finalized' = [finalized EXCEPT ![s] = did_finalize]
  /\ result' = [result EXCEPT ![s] =
       Append(@, [op |-> op[s], force |-> force[s], outcome |-> outcome,
                  wrote |-> wrote[s],
                  finalized |-> did_finalize,
                  ckpt |-> ckpt[s],
                  holds |-> s \in holders,
                  corrupt |-> State(s).none \/ State(s).header_none \/ State(s).statuses_none,
                  terminal |-> IF State(s).statuses = <<>> THEN FALSE
                               ELSE is_task_terminal(Last(State(s).statuses).state)])]

RECURSIVE Sum(_, _)
Sum(f, S) == IF S = {} THEN 0 ELSE LET x == CHOOSE x \in S : TRUE IN f[x] + Sum(f, S \ {x})
\* kill calls issued so far
Kills == Sum(calls, Supervisors)

\* kill, lines 267-270: replay the checkpoint
Kill(s, f, t) ==
  /\ pc[s] = "idle"
  /\ s \in alive
  /\ Kills < MaxKills
  /\ pc' = [pc EXCEPT ![s] = "open"]
  /\ op' = [op EXCEPT ![s] = "kill"]
  /\ force' = [force EXCEPT ![s] = f]
  /\ terminal_status' = [terminal_status EXCEPT ![s] = t]
  /\ seen' = [seen EXCEPT ![s] = Len(log)]
  /\ calls' = [calls EXCEPT ![s] = @ + 1]
  /\ wrote' = [wrote EXCEPT ![s] = 0]
  /\ finalized' = [finalized EXCEPT ![s] = FALSE]
  /\ ckpt' = [ckpt EXCEPT ![s] = "none"]
  /\ todo' = [todo EXCEPT ![s] = {}]
  /\ scanned' = [scanned EXCEPT ![s] = [coordinator_pid |-> 0, pid |-> 0, tree |-> {}]]
  /\ signals' = [signals EXCEPT ![s] = <<>>]
  /\ UNCHANGED <<probe, verdict, log, corrupt, holders, alive, runner_eperm, ps, active_task,
                 finished_task, is_paths, result>>

\* a call goes on
Continue == UNCHANGED <<result, finalized, force, terminal_status>>

\* kill_runner with ESRCH handled as EPERM is (lines 225-230 merged)
kill_runner_esrch_is_failure(state, self, live, eperm) ==
  IF state.none \/ state.statuses_none \/ state.statuses = <<>> THEN "assert"
  ELSE LET pid == Last(state.statuses).runner_pid
       IN IF pid = self THEN "assert"
          ELSE IF pid \notin live THEN "eperm"
          ELSE IF pid = RunnerPid /\ eperm THEN "eperm"
          ELSE "kill"

\* kill_runner with EPERM handled as ESRCH is (lines 225-230 merged)
kill_runner_eperm_is_success(state, self, live, eperm) ==
  IF state.none \/ state.statuses_none \/ state.statuses = <<>> THEN "assert"
  ELSE LET pid == Last(state.statuses).runner_pid
       IN IF pid = self THEN "assert"
          ELSE IF pid \notin live THEN "esrch"
          ELSE IF pid = RunnerPid /\ eperm THEN "esrch"
          ELSE "kill"

\* kill_runner: "assert", "kill", "eperm" or "esrch"
kill_runner_outcome(state, self, live, eperm) ==
  IF state.none \/ state.statuses_none \/ state.statuses = <<>> THEN "assert"
  ELSE LET pid == Last(state.statuses).runner_pid
       IN IF pid = self THEN "assert"
          ELSE IF pid \notin live THEN "esrch"
          ELSE IF pid = RunnerPid /\ eperm THEN "eperm"
          ELSE "kill"

\* open_checkpoint, lines 238-254 with the test of force (line 241) left out
OpenCheckpointIgnoreForce(s) ==
  /\ pc[s] = "open"
  /\ s \in alive
  /\ IF holders = {}
     THEN /\ holders' = {s}
          /\ ckpt' = [ckpt EXCEPT ![s] = "open"]
          /\ pc' = [pc EXCEPT ![s] = "check"]
          /\ UNCHANGED alive
          /\ Continue
     ELSE IF TRUE
     THEN LET how == kill_runner_outcome(State(s), s, alive, runner_eperm)
              pid == Last(State(s).statuses).runner_pid
          IN /\ UNCHANGED <<holders, ckpt>>
             /\ CASE how = "assert" ->
                       /\ Return(s, "AssertionError", FALSE)
                       /\ UNCHANGED alive
                  [] how = "eperm" ->
                       /\ Return(s, "PermissionError", FALSE)
                       /\ UNCHANGED alive
                  [] how = "esrch" ->
                       /\ pc' = [pc EXCEPT ![s] = "block"]
                       /\ UNCHANGED alive
                       /\ Continue
                  [] how = "kill" ->
                       /\ alive' = alive \ {pid}
                       /\ pc' = [t \in Supervisors |->
                                   IF t = s THEN "block"
                                   ELSE IF t = pid THEN "dead" ELSE pc[t]]
                       /\ Continue
     ELSE /\ Return(s, "PermissionError", FALSE)
          /\ UNCHANGED <<holders, ckpt, alive>>
  /\ UNCHANGED <<probe, verdict, log, corrupt, runner_eperm, ps, active_task, finished_task, op,
                 seen, todo, is_paths, calls, wrote, scanned, signals>>

\* open_checkpoint, lines 238-254: the non-blocking lock_file and, when the
\* lock is held and force is set, kill_runner
OpenCheckpoint(s) ==
  /\ pc[s] = "open"
  /\ s \in alive
  /\ IF holders = {}
     THEN /\ holders' = {s}
          /\ ckpt' = [ckpt EXCEPT ![s] = "open"]
          /\ pc' = [pc EXCEPT ![s] = "check"]
          /\ UNCHANGED alive
          /\ Continue
     ELSE IF force[s]
     THEN LET how == kill_runner_outcome(State(s), s, alive, runner_eperm)
              pid == Last(State(s).statuses).runner_pid
          IN /\ UNCHANGED <<holders, ckpt>>
             /\ CASE how = "assert" ->
                       /\ Return(s, "AssertionError", FALSE)
                       /\ UNCHANGED alive
                  [] how = "eperm" ->
                       /\ Return(s, "PermissionError", FALSE)
                       /\ UNCHANGED alive
                  [] how = "esrch" ->
                       /\ pc' = [pc EXCEPT ![s] = "block"]
                       /\ UNCHANGED alive
                       /\ Continue
                  [] how = "kill" ->
                       /\ alive' = alive \ {pid}
                       /\ pc' = [t \in Supervisors |->
                                   IF t = s THEN "block"
                                   ELSE IF t = pid THEN "dead" ELSE pc[t]]
                       /\ Continue
     ELSE /\ Return(s, "PermissionError", FALSE)
          /\ UNCHANGED <<holders, ckpt, alive>>
  /\ UNCHANGED <<probe, verdict, log, corrupt, runner_eperm, ps, active_task, finished_task, op,
                 seen, todo, is_paths, calls, wrote, scanned, signals>>

\* open_checkpoint, line 249 run without waiting for the lock to be free
BlockNoWait(s) ==
  /\ pc[s] = "block"
  /\ s \in alive
  /\ holders' = holders \cup {s}
  /\ ckpt' = [ckpt EXCEPT ![s] = "open"]
  /\ pc' = [pc EXCEPT ![s] = "check"]
  /\ UNCHANGED <<probe, verdict, log, corrupt, alive, runner_eperm, ps, active_task, finished_task,
                 op, force, terminal_status, seen, todo, is_paths, calls, wrote,
                 finalized, result, scanned, signals>>

\* open_checkpoint, lines 249-257: the blocking lock_file returns once no
\* other open file holds the lock
Block(s) ==
  /\ pc[s] = "block"
  /\ s \in alive
  /\ holders = {}
  /\ holders' = {s}
  /\ ckpt' = [ckpt EXCEPT ![s] = "open"]
  /\ pc' = [pc EXCEPT ![s] = "check"]
  /\ UNCHANGED <<probe, verdict, log, corrupt, alive, runner_eperm, ps, active_task, finished_task,
                 op, force, terminal_status, seen, todo, is_paths, calls, wrote,
                 finalized, result, scanned, signals>>

\* kill, lines 272-290: the corrupt-state return, the already-terminal
\* short-circuit, or the ACTIVE record that opens the kill
CheckState(s) ==
  /\ pc[s] = "check"
  /\ s \in alive
  /\ LET state == State(s)
     IN IF state.none \/ state.header_none \/ state.statuses_none
        THEN /\ Return(s, "ok", FALSE)
             /\ UNCHANGED <<log, wrote, todo>>
        ELSE IF is_task_terminal(Last(state.statuses).state)
        THEN /\ pc' = [pc EXCEPT ![s] = "fin_check"]
             /\ UNCHANGED <<log, wrote, todo>>
             /\ Continue
        ELSE /\ log' = Append(log, TaskStatus("ACTIVE", s))
             /\ wrote' = [wrote EXCEPT ![s] = @ + 1]
             /\ todo' = [todo EXCEPT ![s] = DOMAIN state.processes]
             /\ pc' = [pc EXCEPT ![s] = "loop"]
             /\ Continue
  /\ UNCHANGED <<probe, verdict, corrupt, holders, alive, runner_eperm, ps, active_task,
                 finished_task, op, seen, ckpt, is_paths, calls, scanned, signals>>

\* kill, lines 291-301: one iteration of the loop over state.processes
\* (each local is bound once, to the one value the code computes for it)
LoopProcess(s, process) ==
  /\ pc[s] = "loop"
  /\ s \in alive
  /\ process \in todo[s]
  /\ \E state \in {State(s)} :
       \E process_status \in {Last(state.processes[process])} :
         IF is_process_terminal(process_status.state)
         THEN UNCHANGED <<log, wrote, ps, scanned, signals>>
         ELSE \E scan \in {scan_process(state, process, ps)},
                 pgid \in {_get_coordinator_group(state, process)} :
                \E order \in Orders(scan.tree) :
                  \E sigs \in {kill_process_signals(pgid, scan, order)},
                     records \in {process_records(process_status,
                                                  kill_process_result(scan))} :
                    /\ scanned' = [scanned EXCEPT ![s] = scan]
                    /\ signals' = [signals EXCEPT ![s] = sigs]
                    /\ ps' = Deliver(ps, sigs)
                    /\ log' = log \o records
                    /\ wrote' = [wrote EXCEPT ![s] = @ + Len(records)]
  /\ todo' = [todo EXCEPT ![s] = @ \ {process}]
  /\ UNCHANGED <<probe, verdict, corrupt, holders, alive, runner_eperm, active_task, finished_task,
                 pc, op, force, terminal_status, seen, ckpt, is_paths, calls,
                 finalized, result>>

\* kill, line 302 with KILLED written whatever terminal_status is
WriteTerminalAlwaysKilled(s) ==
  /\ pc[s] = "loop"
  /\ s \in alive
  /\ todo[s] = {}
  /\ log' = Append(log, TaskStatus("KILLED", s))
  /\ wrote' = [wrote EXCEPT ![s] = @ + 1]
  /\ ckpt' = [ckpt EXCEPT ![s] = "closed"]
  /\ holders' = holders \ {s}
  /\ pc' = [pc EXCEPT ![s] = "fin_check"]
  /\ scanned' = [scanned EXCEPT ![s] = [coordinator_pid |-> 0, pid |-> 0, tree |-> {}]]
  /\ signals' = [signals EXCEPT ![s] = <<>>]
  /\ UNCHANGED <<probe, verdict, corrupt, alive, runner_eperm, ps, active_task, finished_task, op,
                 force, terminal_status, seen, todo, is_paths, calls, finalized,
                 result>>

\* kill, line 302 and the end of `with closing(ckpt)`: the terminal record,
\* then the writer is closed, which releases the lock (the loop is over:
\* what its last iteration scanned and signalled is dropped)
WriteTerminal(s) ==
  /\ pc[s] = "loop"
  /\ s \in alive
  /\ todo[s] = {}
  /\ log' = Append(log, TaskStatus(terminal_status[s], s))
  /\ wrote' = [wrote EXCEPT ![s] = @ + 1]
  /\ ckpt' = [ckpt EXCEPT ![s] = "closed"]
  /\ holders' = holders \ {s}
  /\ pc' = [pc EXCEPT ![s] = "fin_check"]
  /\ scanned' = [scanned EXCEPT ![s] = [coordinator_pid |-> 0, pid |-> 0, tree |-> {}]]
  /\ signals' = [signals EXCEPT ![s] = <<>>]
  /\ UNCHANGED <<probe, verdict, corrupt, alive, runner_eperm, ps, active_task, finished_task, op,
                 force, terminal_status, seen, todo, is_paths, calls, finalized,
                 result>>

\* finalize_task, lines 357-359 with the assertion of line 360 left out
FinalizeCheckNoAssert(s) ==
  /\ pc[s] = "fin_check"
  /\ s \in alive
  /\ is_paths' = [is_paths EXCEPT ![s] = <<active_task, finished_task>>]
  /\ pc' = [pc EXCEPT ![s] = "fin_rename"]
  /\ Continue
  /\ UNCHANGED <<probe, verdict, log, corrupt, holders, alive, runner_eperm, ps, active_task,
                 finished_task, op, seen, todo, ckpt, calls, wrote, scanned, signals>>

\* finalize_task, lines 357-360: the two existence checks and the assertion
FinalizeCheck(s) ==
  /\ pc[s] = "fin_check"
  /\ s \in alive
  /\ is_paths' = [is_paths EXCEPT ![s] = <<active_task, finished_task>>]
  /\ IF active_task /\ ~finished_task
     THEN /\ pc' = [pc EXCEPT ![s] = "fin_rename"]
          /\ Continue
     ELSE Return(s, "AssertionError", FALSE)
  /\ UNCHANGED <<probe, verdict, log, corrupt, holders, alive, runner_eperm, ps, active_task,
                 finished_task, op, seen, todo, ckpt, calls, wrote, scanned, signals>>

\* finalize_task, lines 361-363: os.rename fails when the active file is
\* gone and replaces the finished file when there is one
FinalizeRename(s) ==
  /\ pc[s] = "fin_rename"
  /\ s \in alive
  /\ IF active_task
     THEN /\ active_task' = FALSE
          /\ finished_task' = TRUE
          /\ Return(s, "ok", TRUE)
     ELSE /\ UNCHANGED <<active_task, finished_task>>
          /\ Return(s, "OSError", FALSE)
  /\ UNCHANGED <<probe, verdict, log, corrupt, holders, alive, runner_eperm, ps, op, seen, todo,
                 ckpt, is_paths, calls, wrote, scanned, signals>>

\* the kernel drops the lock of a process that was killed
KernelRelease ==
  /\ \E p \in holders : p \notin alive
  /\ holders' = holders \cap alive
  /\ UNCHANGED <<probe, verdict, log, corrupt, alive, runner_eperm, ps, active_task, finished_task,
                 pc, op, force, terminal_status, seen, todo, ckpt, is_paths, calls,
                 wrote, finalized, result, scanned, signals>>

\* kill, lines 274 and 287: a writer that kill returned without closing
\* keeps the lock until the interpreter collects it
Collect(s) ==
  /\ s \in holders
  /\ s \in alive
  /\ pc[s] \in {"idle", "open", "block"}
  /\ holders' = holders \ {s}
  /\ UNCHANGED <<probe, verdict, log, corrupt, alive, runner_eperm, ps, active_task, finished_task,
                 pc, op, force, terminal_status, seen, todo, ckpt, is_paths, calls,
                 wrote, finalized, result, scanned, signals>>

\* a direct call of finalize_task
Finalize(s) ==
  /\ pc[s] = "idle"
  /\ s \in alive
  /\ calls[s] < MaxLifecycleCalls
  /\ pc' = [pc EXCEPT ![s] = "fin_check"]
  /\ op' = [op EXCEPT ![s] = "finalize"]
  /\ calls' = [calls EXCEPT ![s] = @ + 1]
  /\ wrote' = [wrote EXCEPT ![s] = 0]
  /\ finalized' = [finalized EXCEPT ![s] = FALSE]
  /\ UNCHANGED <<probe, verdict, log, corrupt, holders, alive, runner_eperm, ps, active_task,
                 finished_task, force, terminal_status, seen, todo, ckpt, is_paths,
                 result, scanned, signals>>

\* initialize_task, lines 346-350: the two existence checks and the assertion
InitializeCheck(s) ==
  /\ pc[s] = "idle"
  /\ s \in alive
  /\ calls[s] < MaxLifecycleCalls
  /\ op' = [op EXCEPT ![s] = "initialize"]
  /\ calls' = [calls EXCEPT ![s] = @ + 1]
  /\ UNCHANGED wrote
  /\ is_paths' = [is_paths EXCEPT ![s] = <<active_task, finished_task>>]
  /\ IF finished_task
     THEN /\ pc' = [pc EXCEPT ![s] = "idle"]
          /\ result' = [result EXCEPT ![s] =
               Append(@, [op |-> "initialize", force |-> FALSE,
                          outcome |-> "AssertionError", wrote |-> 0,
                          finalized |-> FALSE, ckpt |-> "none", holds |-> FALSE,
                          corrupt |-> FALSE, terminal |-> FALSE])]
     ELSE /\ pc' = [pc EXCEPT ![s] = "init_write"]
          /\ UNCHANGED result
  /\ UNCHANGED <<probe, verdict, log, corrupt, holders, alive, runner_eperm, ps, active_task,
                 finished_task, force, terminal_status, seen, todo, ckpt, scanned,
                 signals, finalized>>

\* initialize_task, lines 350-353: write the active file unless it was there
InitializeWrite(s) ==
  /\ pc[s] = "init_write"
  /\ s \in alive
  /\ active_task' = (IF is_paths[s][1] THEN active_task ELSE TRUE)
  /\ pc' = [pc EXCEPT ![s] = "idle"]
  /\ result' = [result EXCEPT ![s] =
       Append(@, [op |-> "initialize", force |-> FALSE, outcome |-> "ok", wrote |-> 0,
                  finalized |-> FALSE, ckpt |-> "none", holds |-> FALSE,
                  corrupt |-> FALSE, terminal |-> FALSE])]
  /\ UNCHANGED <<probe, verdict, log, corrupt, holders, alive, runner_eperm, ps, finished_task, op,
                 force, terminal_status, seen, todo, ckpt, is_paths, calls, wrote,
                 finalized, scanned, signals>>

\* ------------------------------------------------------- specifications
Next ==
  \/ \E s \in Supervisors, f \in BOOLEAN, t \in {"KILLED", "LOST"} : Kill(s, f, t)
  \/ \E s \in Supervisors : OpenCheckpoint(s)
  \/ \E s \in Supervisors : Block(s)
  \/ \E s \in Supervisors : CheckState(s)
  \/ \E s \in Supervisors, process \in ProcessNames : LoopProcess(s, process)
  \/ \E s \in Supervisors : WriteTerminal(s)
  \/ \E s \in Supervisors : FinalizeCheck(s)
  \/ \E s \in Supervisors : FinalizeRename(s)
  \/ \E s \in Supervisors : Collect(s)
  \/ KernelRelease

Spec == Init /\ [][Next]_vars

\* the steps that are not the start of a call: a process that is running
\* goes on running, a blocking lock_file returns once the lock is free, the
\* kernel drops a dead process's lock, and a writer that was left unclosed
\* is collected. No behaviour takes these steps for ever (each call is a
\* finite run of them and the calls are bounded), so fairness on their
\* disjunction says that none of them stays enabled and untaken.
Progress ==
  \/ \E s \in Supervisors : OpenCheckpoint(s)
  \/ \E s \in Supervisors : Block(s)
  \/ \E s \in Supervisors : CheckState(s)
  \/ \E s \in Supervisors, process \in ProcessNames : LoopProcess(s, process)
  \/ \E s \in Supervisors : WriteTerminal(s)
  \/ \E s \in Supervisors : FinalizeCheck(s)
  \/ \E s \in Supervisors : FinalizeRename(s)
  \/ \E s \in Supervisors : Collect(s)
  \/ KernelRelease

Fairness == WF_vars(Progress)

SpecFair == Init /\ [][Next]_vars /\ Fairness

\* the process running kill dies, anywhere from the lock acquired (line 271)
\* to finalize_task's rename not yet made (line 362); dying closes its
\* files, which releases the lock
Crash(s) ==
  /\ pc[s] \in {"check", "loop", "fin_check", "fin_rename"}
  /\ op[s] = "kill"
  /\ s \in alive
  /\ alive' = alive \ {s}
  /\ holders' = holders \ {s}
  /\ pc' = [pc EXCEPT ![s] = "crashed"]
  /\ UNCHANGED <<probe, verdict, log, corrupt, runner_eperm, ps, active_task, finished_task, op,
                 force, terminal_status, seen, todo, ckpt, is_paths, calls, wrote,
                 finalized, result, scanned, signals>>

\* the process running kill dies inside finalize_task, after os.rename
\* (line 362) and before os.utime (line 363)
CrashInRename(s) ==
  /\ pc[s] = "fin_rename"
  /\ op[s] = "kill"
  /\ s \in alive
  /\ active_task
  /\ active_task' = FALSE
  /\ finished_task' = TRUE
  /\ alive' = alive \ {s}
  /\ holders' = holders \ {s}
  /\ pc' = [pc EXCEPT ![s] = "crashed"]
  /\ UNCHANGED <<probe, verdict, log, corrupt, runner_eperm, ps, op, force, terminal_status, seen,
                 todo, ckpt, is_paths, calls, wrote, finalized, result, scanned,
                 signals>>

\* the first kill of a task
FirstKill(s, f, t) ==
  /\ Kills = 0
  /\ Kill(s, f, t)

\* a kill issued again after the process running the kill before it died,
\* with no other kill in progress
Retry(s, f, t) ==
  /\ \E u \in Supervisors : pc[u] = "crashed"
  /\ \A u \in Supervisors \ {s} : pc[u] \in {"idle", "crashed"}
  /\ Kill(s, f, t)

\* a task in progress, whose checkpoint replay can read
InitCrash ==
  /\ Init
  /\ corrupt = "none"
  /\ ~is_task_terminal(Last(Filter(log, "task", "")).state)

NextCrash ==
  \/ \E s \in Supervisors, f \in BOOLEAN, t \in {"KILLED", "LOST"} : FirstKill(s, f, t)
  \/ \E s \in Supervisors, f \in BOOLEAN, t \in {"KILLED", "LOST"} : Retry(s, f, t)
  \/ \E s \in Supervisors : Crash(s)
  \/ \E s \in Supervisors : CrashInRename(s)
  \/ \E s \in Supervisors : OpenCheckpoint(s)
  \/ \E s \in Supervisors : Block(s)
  \/ \E s \in Supervisors : CheckState(s)
  \/ \E s \in Supervisors, process \in ProcessNames : LoopProcess(s, process)
  \/ \E s \in Supervisors : WriteTerminal(s)
  \/ \E s \in Supervisors : FinalizeCheck(s)
  \/ \E s \in Supervisors : FinalizeRename(s)
  \/ \E s \in Supervisors : Collect(s)
  \/ KernelRelease

\* kills one after the other, with crashes; a process that has not crashed
\* goes on running
SpecCrash == InitCrash /\ [][NextCrash]_vars /\ Fairness

\* the task directory alone: initialize_task and finalize_task called
\* directly, by any supervisor, on a task that has no files yet
InitLife ==
  /\ InitLocals
  /\ NotProbing
  /\ alive = Supervisors
  /\ holders = {}
  /\ runner_eperm = FALSE
  /\ corrupt = "none"
  /\ log = <<>>
  /\ ps = DeadTable
  /\ active_task = FALSE
  /\ finished_task = FALSE

NextLife ==
  \/ \E s \in Supervisors : InitializeCheck(s)
  \/ \E s \in Supervisors : InitializeWrite(s)
  \/ \E s \in Supervisors : Finalize(s)
  \/ \E s \in Supervisors : FinalizeCheck(s)
  \/ \E s \in Supervisors : FinalizeRename(s)

SpecLife == InitLife /\ [][NextLife]_vars

\* this_is_really_our_pid called directly: any owner of the handle, any
\* expected owner, any start time, clock and wall time up to MaxTime
Users == {TaskUser, "other"}

InitPid ==
  /\ InitLocals
  /\ alive = Supervisors
  /\ holders = {}
  /\ runner_eperm = FALSE
  /\ corrupt = "none"
  /\ log = <<>>
  /\ ps = DeadTable
  /\ active_task = FALSE
  /\ finished_task = FALSE
  /\ probe \in [user : Users, current_user : Users, wall_time : 0..MaxTime,
                 start_time : 0..MaxTime, now : 0..MaxTime]
  /\ verdict = <<>>

VerifyPid ==
  /\ verdict = <<>>
  /\ verdict' = <<this_is_really_our_pid(Handle(probe.user, probe.wall_time, 1, 1),
                                         probe.current_user, probe.start_time,
                                         probe.now)>>
  /\ UNCHANGED <<log, corrupt, holders, alive, runner_eperm, ps, active_task,
                 finished_task, pc, op, force, terminal_status, seen, todo, ckpt,
                 is_paths, calls, wrote, finalized, result, scanned, signals, probe>>

SpecPid == InitPid /\ [][VerifyPid]_vars

\* scan_process called directly, on any recorded coordinator_pid and pid
\* of process a and any snapshot of the process table: the coordinator's
\* and the main process's pid each gone, ours, another user's, or started
\* at another time; the two other pids gone or running under any parent
CoordinatorHandles ==
  {NoHandle, OurCoordinator, StrangerCoordinator,
   Handle(TaskUser, Now - RecordedStart - MAX_START_TIME_DRIFT, 1, CoordPid)}
MainHandles ==
  {NoHandle, OurMain, StrangerMain, Handle("other", Now - RecordedStart, CoordPid, CoordPid)}
OtherHandles(parents) == {NoHandle} \cup {Handle(TaskUser, 5, p, CoordPid) : p \in parents}

InitScan ==
  /\ InitLocals
  /\ NotProbing
  /\ alive = Supervisors
  /\ holders = {}
  /\ runner_eperm = FALSE
  /\ corrupt = "none"
  /\ \E coordinator_pid \in {0, CoordPid}, pid \in {0, MainPid} :
       log = <<TaskStatus("ACTIVE", RunnerPid),
               ProcessStatus("a", "RUNNING", 2, coordinator_pid, pid, 0, 0)>>
  /\ \E c \in CoordinatorHandles, m \in MainHandles,
        k \in OtherHandles({1, CoordPid, MainPid, GrandChildPid}),
        g \in OtherHandles({1, CoordPid, MainPid, ChildPid}) :
       /\ ~(k.ppid = GrandChildPid /\ g.ppid = ChildPid)
       /\ ps = [p \in OSPids |-> CASE p = CoordPid -> c [] p = MainPid -> m
                                   [] p = ChildPid -> k [] OTHER -> g]
  /\ active_task = TRUE
  /\ finished_task = FALSE

\* _get_process_tuple: replay is given, collect_all took the snapshot
ScanProcess(s) ==
  /\ pc[s] = "idle"
  /\ seen[s] = 0
  /\ seen' = [seen EXCEPT ![s] = Len(log)]
  /\ scanned' = [scanned EXCEPT ![s] =
       scan_process(from_file(log, corrupt), "a", ps)]
  /\ pc' = [pc EXCEPT ![s] = "scanned"]
  /\ UNCHANGED <<log, corrupt, holders, alive, runner_eperm, ps, active_task,
                 finished_task, op, force, terminal_status, todo, ckpt, is_paths,
                 calls, wrote, finalized, result, signals, probe, verdict>>

SpecScan == InitScan /\ [][\E s \in Supervisors : ScanProcess(s)]_vars

\* ----------------------------------------------------------------- claims
\* the latest TaskStatus of a log is terminal
TaskTerminal(l) ==
  LET statuses == Filter(l, "task", "")
  IN statuses # <<>> /\ is_task_terminal(Last(statuses).state)

\* the completed kill calls of supervisor s
KillCalls(s) == {i \in DOMAIN result[s] : result[s][i].op = "kill"}

\* C1: when kill is called twice in sequence on a task whose latest
\* TaskStatus is already terminal, neither call appends a checkpoint record
\* and both calls succeed.
C1_KillTwiceOnTerminal ==
  \A s \in Supervisors :
    (/\ Len(result[s]) = 2
     /\ \A t \in Supervisors \ {s} : calls[t] = 0
     /\ \A i \in 1..2 : result[s][i].op = "kill" /\ result[s][i].terminal)
    => \A i \in 1..2 : result[s][i].outcome = "ok" /\ result[s][i].wrote = 0

\* C2: no record is appended to a checkpoint log whose latest TaskStatus,
\* at the moment of the append, is terminal.
C2_TerminalGate == [][Len(log') > Len(log) => ~TaskTerminal(log)]_vars

\* C3: at most one process holds the checkpoint lock, and every record
\* appended by kill is appended by a process that holds the lock.
C3_SingleWriter ==
  /\ [](Cardinality(holders) <= 1)
  /\ [][Len(log') > Len(log) =>
          \E s \in Supervisors : wrote'[s] > wrote[s] /\ s \in holders]_vars

\* C3 witness: a supervisor appends under the lock while another, having
\* killed the recorded owner, waits for the lock in blocking mode.
C3_Witness ==
  \E s, t \in Supervisors :
    /\ s # t
    /\ s \in holders
    /\ wrote[s] > 0
    /\ pc[s] = "loop"
    /\ pc[t] = "block"

\* C4: every ProcessStatus record appended by kill has the seq of the
\* latest record of that process in the log at the moment of the append,
\* plus 1.
C4_MonotonicSeq ==
  [][(Len(log') = Len(log) + 1 /\ Last(log').kind = "process") =>
       Last(log').seq = Last(Filter(log, "process", Last(log').process)).seq + 1]_vars

\* C5: when the scan confirmed neither the recorded coordinator pid nor the
\* recorded pid, kill_process sent no signal, to no pid and to no group.
C5_NoSignalUnlessConfirmed ==
  \A s \in Supervisors :
    (pc[s] = "loop" /\ scanned[s].coordinator_pid = 0 /\ scanned[s].pid = 0)
    => signals[s] = <<>>

\* C6: kill never appends a LOST record for a process whose latest
\* ProcessStatus, in the state the call replayed, is WAITING.
C6_WaitingExemption ==
  [][\A s \in Supervisors :
       (/\ wrote'[s] > wrote[s]
        /\ Last(log').kind = "process"
        /\ Last(log').state = "LOST")
       => Last(State(s).processes[Last(log').process]).state # "WAITING"]_vars

\* C6 witness: a kill has gone through the WAITING process b and appended
\* nothing for it, and has appended a LOST record for the other process.
C6_Witness ==
  \E s \in Supervisors :
    /\ pc[s] = "loop"
    /\ todo[s] = {}
    /\ Last(State(s).processes["b"]).state = "WAITING"
    /\ Len(Filter(log, "process", "b")) = 1
    /\ Last(log).kind = "process" /\ Last(log).state = "LOST"

\* C7: every kill call that ended either returned with the task directory
\* finalized, or raised before it appended any record.
C7_AllOrNothing ==
  \A s \in Supervisors : \A i \in KillCalls(s) :
    \/ result[s][i].outcome = "ok" /\ result[s][i].finalized
    \/ result[s][i].outcome # "ok" /\ result[s][i].wrote = 0

\* C8: when a kill call that acquired the checkpoint lock has returned or
\* raised, its writer is closed and it no longer holds the lock.
C8_LockReleased ==
  \A s \in Supervisors : \A i \in KillCalls(s) :
    result[s][i].ckpt # "none"
    => result[s][i].ckpt = "closed" /\ ~result[s][i].holds

\* C9: a kill call whose replayed state, header or statuses is missing
\* raises an error and leaves the log and the task directory as they were.
C9_CorruptIsHardError ==
  \A s \in Supervisors : \A i \in KillCalls(s) :
    result[s][i].corrupt =>
      /\ result[s][i].outcome # "ok"
      /\ result[s][i].wrote = 0
      /\ ~result[s][i].finalized

\* C10: the active task file and the finished task file never both exist
\* (no step removes the finished file, so this is also: once the finished
\* file exists, the active file never exists again).
C10_LifecycleExclusive == ~(active_task /\ finished_task)

\* C11: finalize_task called when the active file is absent (before
\* initialize_task) or when the finished file exists (a second finalize)
\* raises AssertionError and moves no file; initialize_task called when the
\* finished file exists raises AssertionError and writes no file;
\* initialize_task that found the active file writes nothing and returns;
\* finalize_task whose precondition holds moves active to finished.
C11_LifecyclePreconditions ==
  [][\A s \in Supervisors :
       /\ (pc[s] = "fin_check" /\ pc'[s] # "fin_check"
           /\ ~(active_task /\ ~finished_task))
          => /\ Len(result'[s]) = Len(result[s]) + 1
             /\ Last(result'[s]).outcome = "AssertionError"
             /\ active_task' = active_task /\ finished_task' = finished_task
       /\ (pc[s] = "idle" /\ calls'[s] > calls[s] /\ op'[s] = "initialize"
           /\ finished_task)
          => /\ Len(result'[s]) = Len(result[s]) + 1
             /\ Last(result'[s]).outcome = "AssertionError"
             /\ active_task' = active_task /\ finished_task' = finished_task
       /\ (pc[s] = "init_write" /\ pc'[s] = "idle" /\ is_paths[s][1])
          => /\ Len(result'[s]) = Len(result[s]) + 1
             /\ Last(result'[s]).outcome = "ok"
             /\ active_task' = active_task /\ finished_task' = finished_task
       /\ (pc[s] = "fin_rename" /\ pc'[s] = "idle"
           /\ active_task /\ ~finished_task)
          => /\ Len(result'[s]) = Len(result[s]) + 1
             /\ Last(result'[s]).outcome = "ok"
             /\ ~active_task' /\ finished_task']_vars

\* C11 witness: one process initialized and finalized the task; the other
\* then called finalize_task a second time and initialize_task, and both
\* raised AssertionError; the task is finished.
C11_Witness ==
  \E s, t \in Supervisors :
    /\ s # t
    /\ Len(result[s]) = 2 /\ Len(result[t]) = 2
    /\ result[s][1].op = "initialize" /\ result[s][1].outcome = "ok"
    /\ result[s][2].op = "finalize" /\ result[s][2].outcome = "ok"
    /\ result[s][2].finalized
    /\ result[t][1].op = "finalize" /\ result[t][1].outcome = "AssertionError"
    /\ result[t][2].op = "initialize" /\ result[t][2].outcome = "AssertionError"
    /\ is_paths[t] = <<FALSE, TRUE>>
    /\ finished_task /\ ~active_task

\* the only call issued so far is one kill by supervisor s
OnlyKill(s) ==
  /\ calls[s] = 1
  /\ op[s] = "kill"
  /\ \A t \in Supervisors \ {s} : calls[t] = 0

\* the records appended since supervisor s replayed the log
Appended(s) == SubSeq(log, seen[s] + 1, Len(log))

\* recs is: TaskStatus ACTIVE by s, then ProcessStatus records only, at most
\* one for each process the replayed state shows non-terminal and none for
\* the others, then one TaskStatus by s
KillSequence(s, recs) ==
  /\ Len(recs) >= 2
  /\ recs[1] = TaskStatus("ACTIVE", s)
  /\ Last(recs).kind = "task" /\ Last(recs).runner_pid = s
  /\ \A i \in 2..(Len(recs) - 1) : recs[i].kind = "process"
  /\ \A n \in DOMAIN State(s).processes :
       Len(Filter(recs, "process", n)) <=
         (IF is_process_terminal(Last(State(s).processes[n]).state) THEN 0 ELSE 1)

\* C12: one kill that nothing else interleaves with, on a task whose latest
\* TaskStatus is not terminal, appends TaskStatus ACTIVE with the caller's
\* pid, then at most one ProcessStatus per non-terminal process and none
\* for a terminal process, then one TaskStatus with state terminal_status;
\* then it returns with the task directory finalized, once.
C12_KillRecordSequence ==
  \A s \in Supervisors :
    OnlyKill(s) =>
      /\ (pc[s] = "fin_check" /\ wrote[s] > 0)
         => /\ KillSequence(s, Appended(s))
            /\ Last(log) = TaskStatus(terminal_status[s], s)
            /\ Len(Appended(s)) = wrote[s]
      /\ (/\ pc[s] = "idle" /\ Len(result[s]) = 1
          /\ result[s][1].ckpt # "none"
          /\ ~result[s][1].corrupt /\ ~result[s][1].terminal)
         => /\ result[s][1].outcome = "ok"
            /\ result[s][1].finalized
            /\ finished_task /\ ~active_task
            /\ KillSequence(s, Appended(s))
            /\ Last(log).state \in {"KILLED", "LOST"}
            /\ Len(Appended(s)) = result[s][1].wrote

\* C12 witness: a single lose() has returned: it appended ACTIVE, one
\* KILLED record for the running process a, nothing for the WAITING
\* process b, and TaskStatus LOST, and the task is finished.
C12_Witness ==
  \E s \in Supervisors :
    /\ OnlyKill(s)
    /\ pc[s] = "idle" /\ Len(result[s]) = 1
    /\ result[s][1].outcome = "ok" /\ result[s][1].finalized
    /\ result[s][1].wrote = 3
    /\ Appended(s) = <<TaskStatus("ACTIVE", s),
                       ProcessStatus("a", "KILLED", 3, 0, 0, SIGKILL_RETURN_CODE, Now),
                       TaskStatus("LOST", s)>>
    /\ finished_task /\ ~active_task

\* supervisor s takes its open_checkpoint step
Opens(s) == pc[s] = "open" /\ pc'[s] # "open" /\ s \in alive'

\* the step ends the call of supervisor s with the given error
Raises(s, error) ==
  /\ Len(result'[s]) = Len(result[s]) + 1
  /\ Last(result'[s]).outcome = error
  /\ Last(result'[s]).wrote = 0
  /\ ~Last(result'[s]).finalized
  /\ pc'[s] = "idle"

\* C13: when the checkpoint lock is held by another process and force is
\* false, open_checkpoint, and with it kill, raises PermissionError: no
\* process is signalled, no record is appended, the task directory is not
\* finalized and the holder keeps the lock.
C13_ContentionWithoutForce ==
  [][\A s \in Supervisors :
       (Opens(s) /\ holders # {} /\ s \notin holders /\ ~force[s])
       => /\ Raises(s, "PermissionError")
          /\ alive' = alive /\ ps' = ps
          /\ log' = log
          /\ active_task' = active_task /\ finished_task' = finished_task
          /\ holders' = holders]_vars

\* C13 witness: the runner holds the lock and can be signalled; the one
\* kill issued, with force false, was refused with PermissionError, and the
\* runner is alive and still holds the lock.
C13_Witness ==
  \E s \in Supervisors :
    /\ OnlyKill(s)
    /\ ~runner_eperm
    /\ Len(result[s]) = 1
    /\ ~result[s][1].force
    /\ result[s][1].outcome = "PermissionError"
    /\ result[s][1].wrote = 0 /\ ~result[s][1].finalized
    /\ RunnerPid \in alive
    /\ holders = {RunnerPid}
    /\ active_task /\ ~finished_task

\* the pid kill_runner signals for supervisor s: the runner_pid of the
\* latest TaskStatus it replayed (0 when it replayed none)
RecordedOwner(s) ==
  IF State(s).none \/ State(s).statuses_none \/ State(s).statuses = <<>> THEN 0
  ELSE Last(State(s).statuses).runner_pid

\* C14: when the lock is held, force is true and the signal to the recorded
\* owner fails with EPERM, open_checkpoint raises PermissionError without
\* going on to the blocking lock_file: the kill is over, no record is
\* appended, the task directory is not finalized, and holder and owner are
\* as they were.
C14_TakeoverDenied ==
  [][\A s \in Supervisors :
       (/\ Opens(s) /\ holders # {} /\ force[s]
        /\ RecordedOwner(s) = RunnerPid /\ RunnerPid \in alive /\ runner_eperm)
       => /\ Raises(s, "PermissionError")
          /\ ckpt'[s] = "none"
          /\ alive' = alive /\ ps' = ps
          /\ log' = log
          /\ active_task' = active_task /\ finished_task' = finished_task
          /\ holders' = holders]_vars

\* C14 witness: the runner holds the lock and cannot be signalled; the one
\* kill issued, with force true, ended in PermissionError without a writer;
\* the runner is alive and holds the lock, and the log is as it was.
C14_Witness ==
  \E s \in Supervisors :
    /\ OnlyKill(s)
    /\ runner_eperm
    /\ Len(result[s]) = 1
    /\ result[s][1].force
    /\ result[s][1].outcome = "PermissionError"
    /\ result[s][1].ckpt = "none"
    /\ result[s][1].wrote = 0 /\ ~result[s][1].finalized
    /\ RunnerPid \in alive
    /\ holders = {RunnerPid}
    /\ Len(log) = seen[s]
    /\ active_task /\ ~finished_task

Retried(t) ==
  /\ calls[t] = 1
  /\ op[t] = "kill"
  /\ \E s \in Supervisors \ {t} : pc[s] = "crashed"

\* C16: when the process running kill crashed somewhere between acquiring
\* the lock and the end of finalize_task, a kill issued again runs to its
\* end, and without error: after it the latest TaskStatus is terminal, every
\* process whose latest status is not WAITING has a terminal latest status,
\* and the task directory is finalized (finished exists, active does not).
C16_CrashResumption ==
  /\ [](\A t \in Supervisors :
          (Retried(t) /\ pc[t] = "idle" /\ Len(result[t]) = 1)
          => /\ result[t][1].outcome = "ok"
             /\ TaskTerminal(log)
             /\ \A n \in ProcessNames :
                  LET latest == Last(Filter(log, "process", n)).state
                  IN latest = "WAITING" \/ is_process_terminal(latest)
             /\ finished_task /\ ~active_task)
  /\ \A t \in Supervisors :
       (Retried(t) /\ pc[t] = "open") ~> (pc[t] \in {"idle", "crashed"})

\* the drift this_is_really_our_pid measures for the probe
ProbeDrift == Abs(probe.start_time - (probe.now - probe.wall_time))

\* C17: for every owner, expected owner, recorded start time, current time
\* and wall time, this_is_really_our_pid returns false when the handle's
\* owner is not the expected owner, whatever the times; with the owner
\* matching, it returns true when |start_time - (now - wall_time)| < 10 and
\* false when that drift is 10 or more.
C17_PidVerdict ==
  verdict # <<>> =>
    /\ probe.user # probe.current_user => verdict[1] = FALSE
    /\ (probe.user = probe.current_user /\ ProbeDrift < 10) => verdict[1] = TRUE
    /\ (probe.user = probe.current_user /\ ProbeDrift >= 10) => verdict[1] = FALSE

\* C17 witness: the owner matches and the drift is exactly 10; the verdict
\* is false.
C17_Witness ==
  /\ verdict = <<FALSE>>
  /\ probe.user = probe.current_user
  /\ ProbeDrift = 10

\* supervisor s takes the loop iteration of process n, which its replayed
\* state shows non-terminal (so kill_process is called)
KillsProcess(s, n) ==
  /\ pc[s] = "loop" /\ s \in alive'
  /\ n \in todo[s] /\ n \notin todo'[s]
  /\ ~is_process_terminal(Last(State(s).processes[n]).state)

\* the positions of sigs that hold x
Positions(sigs, x) == {i \in DOMAIN sigs : sigs[i] = x}

\* C18: the signals kill_process sends for one process are, in this order:
\* the coordinator's process group, if and only if a coordinator pid is
\* recorded; the coordinator pid, if the scan confirmed it; the main pid, if
\* the scan confirmed it; each descendant, once. No group is signalled when
\* no coordinator pid is recorded, and a recorded coordinator or main pid
\* that the scan did not confirm is not signalled individually.
C18_SignalOrder ==
  [][\A s \in Supervisors : \A n \in ProcessNames :
       KillsProcess(s, n) =>
         LET run == Last(State(s).processes[n])
             sigs == signals'[s]
             scan == scanned'[s]
             groups == {i \in DOMAIN sigs : sigs[i] < 0}
             confirmed == ({scan.coordinator_pid, scan.pid} \ {0}) \cup scan.tree
         IN /\ groups = (IF run.coordinator_pid # 0 THEN {1} ELSE {})
            /\ groups # {} => sigs[1] = 0 - run.coordinator_pid
            /\ {sigs[i] : i \in DOMAIN sigs \ groups} = confirmed
            /\ Len(sigs) = Cardinality(groups) + Cardinality(confirmed)
            /\ scan.coordinator_pid # 0 =>
                 Positions(sigs, scan.coordinator_pid) = {Cardinality(groups) + 1}
            /\ scan.pid # 0 =>
                 Positions(sigs, scan.pid) =
                   {Cardinality(groups) + (IF scan.coordinator_pid # 0 THEN 2 ELSE 1)}
            /\ scan.coordinator_pid = 0 => Positions(sigs, run.coordinator_pid) = {}
            /\ scan.pid = 0 => Positions(sigs, run.pid) = {}]_vars

\* C18 witness: a kill_process that signalled the coordinator's group, the
\* coordinator, the main process and its two descendants, in that order.
C18_Witness ==
  \E s \in Supervisors :
    /\ pc[s] = "loop"
    /\ Len(signals[s]) = 5
    /\ signals[s][1] = 0 - CoordPid
    /\ signals[s][2] = CoordPid
    /\ signals[s][3] = MainPid
    /\ {signals[s][4], signals[s][5]} = {ChildPid, GrandChildPid}
    /\ scanned[s].tree = {ChildPid, GrandChildPid}

\* C19: for every process whose latest status, in the state kill replayed,
\* is not terminal: kill appends a KILLED record, with return_code -9 and
\* stop_time set, if and only if the scan found the coordinator pid, the
\* main pid or a descendant live; it appends a LOST record if and only if
\* the scan found nothing and the latest state is not WAITING; and it
\* appends nothing when the scan found nothing and the latest state is
\* WAITING.
C19_KilledOrLost ==
  [][\A s \in Supervisors : \A n \in ProcessNames :
       KillsProcess(s, n) =>
         LET run == Last(State(s).processes[n])
             scan == scanned'[s]
             found == scan.coordinator_pid # 0 \/ scan.pid # 0 \/ scan.tree # {}
             new == SubSeq(log', Len(log) + 1, Len(log'))
             one(state) == /\ Len(new) = 1
                           /\ new[1].kind = "process" /\ new[1].process = n
                           /\ new[1].state = state
                           /\ new[1].seq = run.seq + 1
         IN /\ Len(new) <= 1
            /\ found <=> one("KILLED")
            /\ found => new[1].return_code = 0 - 9 /\ new[1].stop_time = Now
            /\ (~found /\ run.state # "WAITING") <=> one("LOST")
            /\ (~found /\ run.state = "WAITING") <=> new = <<>>]_vars

\* C19 witness: a kill found the main pid of process a live and appended its
\* KILLED record, with return_code -9 and stop_time set.
C19_Witness ==
  \E s \in Supervisors :
    /\ pc[s] = "loop"
    /\ scanned[s].pid = MainPid
    /\ wrote[s] = 2
    /\ Last(log) = ProcessStatus("a", "KILLED", 3, 0, 0, 0 - 9, Now)

\* pid p is m's child, grandchild, ... in the table
RECURSIVE DescendsFrom(_, _, _, _)
DescendsFrom(table, p, m, hops) ==
  /\ hops > 0
  /\ table[p] # NoHandle
  /\ \/ table[p].ppid = m
     \/ /\ table[p].ppid \in DOMAIN table
        /\ DescendsFrom(table, table[p].ppid, m, hops - 1)

\* the handle of a recorded pid is in the table, is the task user's, and
\* started within 10 seconds of the recorded time
PassesCheck(table, pid, recorded_time) ==
  /\ pid \in DOMAIN table
  /\ table[pid] # NoHandle
  /\ table[pid].user = TaskUser
  /\ Abs(recorded_time - (Now - table[pid].wall_time)) < 10

\* C20: scan_process returns a coordinator pid only if it is the recorded
\* coordinator_pid, present in the table and passing the ownership check
\* (and then it does return it), and a main pid only if it is the recorded
\* pid, present and passing the check (and then it does), neither depending
\* on the other; when it returns no main pid the descendant set is empty,
\* and otherwise the set is every descendant of that pid in the snapshot.
C20_ScanShape ==
  \A s \in Supervisors :
    pc[s] = "scanned" =>
      LET run == Last(State(s).processes["a"])
          scan == scanned[s]
      IN /\ scan.coordinator_pid \in {0, run.coordinator_pid}
         /\ scan.coordinator_pid # 0
              <=> PassesCheck(ps, run.coordinator_pid, run.fork_time)
         /\ scan.pid \in {0, run.pid}
         /\ scan.pid # 0 <=> PassesCheck(ps, run.pid, run.start_time)
         /\ scan.pid = 0 => scan.tree = {}
         /\ scan.pid # 0 =>
              scan.tree = {p \in OSPids :
                             DescendsFrom(ps, p, scan.pid, Cardinality(OSPids))}

\* C20 witness: the coordinator is confirmed; the recorded main pid is in
\* the table with a child and a grandchild but fails the check: no main
\* pid is returned and the descendant set is empty.
C20_Witness ==
  \E s \in Supervisors :
    /\ pc[s] = "scanned"
    /\ scanned[s] = [coordinator_pid |-> CoordPid, pid |-> 0, tree |-> {}]
    /\ Last(State(s).processes["a"]).pid = MainPid
    /\ ps[MainPid] # NoHandle
    /\ ps[ChildPid].ppid = MainPid
    /\ ps[GrandChildPid].ppid = ChildPid
====
